---- MODULE Spec2Model ----
(***************************************************************************)
(* The dashboard page of src/index_page.h: seven text slots of the markup, *)
(* the page script (lines 55-115) that calls fetchStatus, fetchTime and    *)
(* fetchSensor at load and arms two interval timers, the browser's timer   *)
(* queue, and the three HTTP endpoints as the environment.                 *)
(*                                                                         *)
(* The module is ASCII: the markup's ellipsis character is written "..."   *)
(* and the degree sign of the temperature unit is written "deg".           *)
(***************************************************************************)
EXTENDS Integers, Sequences, FiniteSets

VARIABLES pc, timers, clock, due, sent, pending, hung, healthy, slots, last

vars == <<pc, timers, clock, due, sent, pending, hung, healthy, slots, last>>

(***************************************************************************)
(* Bounds of the model.                                                    *)
(***************************************************************************)
\* Requests of one poller that an endpoint will still answer at one time:
\* in the specification of the whole page, and in the specifications that give
\* an endpoint every response or that are checked for liveness.
MaxInFlight == 2

SmallInFlight == 1

(***************************************************************************)
(* JavaScript values, as far as the script uses them.                      *)
(***************************************************************************)
Undefined == [t |-> "undefined"]
Null      == [t |-> "null"]
Bool(b)   == [t |-> "boolean", b |-> b]
Num(n)    == [t |-> "number", n |-> n]
Str(s)    == [t |-> "string", s |-> s]

Digit == <<"0", "1", "2", "3", "4", "5", "6", "7", "8", "9">>

RECURSIVE NatToString(_)
NatToString(n) ==
    IF n < 10 THEN Digit[n + 1]
    ELSE NatToString(n \div 10) \o Digit[(n % 10) + 1]

\* ToString of the value on the right of a string concatenation.
ToString(v) ==
    CASE v.t = "undefined" -> "undefined"
      [] v.t = "null"      -> "null"
      [] v.t = "boolean"   -> IF v.b THEN "true" ELSE "false"
      [] v.t = "number"    -> IF v.n < 0 THEN "-" \o NatToString(0 - v.n)
                              ELSE NatToString(v.n)
      [] v.t = "string"    -> v.s

\* ToBoolean of the condition of ?: and of the left operand of ||.
ToBoolean(v) ==
    CASE v.t = "undefined" -> FALSE
      [] v.t = "null"      -> FALSE
      [] v.t = "boolean"   -> v.b
      [] v.t = "number"    -> v.n # 0
      [] v.t = "string"    -> v.s # ""

(***************************************************************************)
(* The markup: the text slots and their initial text.                      *)
(***************************************************************************)
Pollers == {"status", "time", "sensor"}

SlotIds == {"wifi", "datetime", "temp", "hum", "level", "pump", "camera"}

InitialSlots == [s \in SlotIds |-> "Loading..."]

(***************************************************************************)
(* What an endpoint can do with a request that it answers: the fetch       *)
(* rejects, the body is not JSON, or the body parses to a value j.         *)
(***************************************************************************)
Rejected == [kind |-> "reject"]
NotJson  == [kind |-> "notjson"]
Json(j)  == [kind |-> "json", body |-> j]
NoPoll   == [kind |-> "none"]

\* await fetch(...) or await r.json() throws, or a property of null is read.
Throws(resp) == resp.kind # "json" \/ resp.body = Null

(***************************************************************************)
(* fetchStatus, lines 57-70.                                               *)
(***************************************************************************)
\* Mutant: the Wi-Fi text is chosen on j.ip instead of j.connected.
fetchStatusTry_onIp(j, s) ==
    LET s1 == [s EXCEPT !["wifi"] =
                 IF ToBoolean(j.ip) THEN "Connected: " \o ToString(j.ip)
                 ELSE "Not connected"]
    IN  IF j.cameraDetected # Undefined
        THEN [s1 EXCEPT !["camera"] =
                IF ToBoolean(j.cameraDetected) THEN "Successful" ELSE "Unsuccessful"]
        ELSE IF j.camera # Undefined
        THEN [s1 EXCEPT !["camera"] =
                IF ToBoolean(j.camera) THEN "Successful" ELSE "Unsuccessful"]
        ELSE s1

fetchStatusTry(j, s) ==
    LET s1 == [s EXCEPT !["wifi"] =
                 IF ToBoolean(j.connected) THEN "Connected: " \o ToString(j.ip)
                 ELSE "Not connected"]
    IN  IF j.cameraDetected # Undefined
        THEN [s1 EXCEPT !["camera"] =
                IF ToBoolean(j.cameraDetected) THEN "Successful" ELSE "Unsuccessful"]
        ELSE IF j.camera # Undefined
        THEN [s1 EXCEPT !["camera"] =
                IF ToBoolean(j.camera) THEN "Successful" ELSE "Unsuccessful"]
        ELSE s1

fetchStatusCatch(s) == [s EXCEPT !["wifi"] = "Error"]

(***************************************************************************)
(* fetchTime, lines 73-81.                                                 *)
(***************************************************************************)
\* Mutant: the fallback is taken on null only, as in fetchSensor.
fetchTimeTry_nullOnly(j, s) ==
    [s EXCEPT !["datetime"] =
       IF j.datetime # Null THEN ToString(j.datetime) ELSE "N/A"]

fetchTimeTry(j, s) ==
    [s EXCEPT !["datetime"] =
       IF ToBoolean(j.datetime) THEN ToString(j.datetime) ELSE "N/A"]

fetchTimeCatch(s) == [s EXCEPT !["datetime"] = "Error"]

(***************************************************************************)
(* fetchSensor, lines 85-98.                                               *)
(***************************************************************************)
\* Mutant: the fallback is taken on every falsy value, as in fetchTime.
fetchSensorTry_falsy(j, s) ==
    [s EXCEPT
       !["temp"]  = IF ToBoolean(j.temperature)
                    THEN ToString(j.temperature) \o " degC" ELSE "N/A",
       !["hum"]   = IF ToBoolean(j.humidity)
                    THEN ToString(j.humidity) \o " %" ELSE "N/A",
       !["level"] = IF ToBoolean(j.level)
                    THEN ToString(j.level) \o " %" ELSE "N/A",
       !["pump"]  = IF j.pump # Null
                    THEN (IF ToBoolean(j.pump) THEN "On" ELSE "Off") ELSE "N/A"]

fetchSensorTry(j, s) ==
    [s EXCEPT
       !["temp"]  = IF j.temperature # Null
                    THEN ToString(j.temperature) \o " degC" ELSE "N/A",
       !["hum"]   = IF j.humidity # Null
                    THEN ToString(j.humidity) \o " %" ELSE "N/A",
       !["level"] = IF j.level # Null
                    THEN ToString(j.level) \o " %" ELSE "N/A",
       !["pump"]  = IF j.pump # Null
                    THEN (IF ToBoolean(j.pump) THEN "On" ELSE "Off") ELSE "N/A"]

\* Mutant: the catch block also overwrites the time slot.
fetchSensorCatch_alsoTime(s) ==
    [s EXCEPT !["temp"] = "Error", !["hum"] = "Error", !["pump"] = "Error",
              !["datetime"] = "Error"]

fetchSensorCatch(s) ==
    [s EXCEPT !["temp"] = "Error", !["hum"] = "Error", !["pump"] = "Error"]

\* The continuation of poller p after its awaits, on the response resp.
Handler(p, resp, s) ==
    CASE p = "status" -> IF Throws(resp) THEN fetchStatusCatch(s)
                         ELSE fetchStatusTry(resp.body, s)
      [] p = "time"   -> IF Throws(resp) THEN fetchTimeCatch(s)
                         ELSE fetchTimeTry(resp.body, s)
      [] p = "sensor" -> IF Throws(resp) THEN fetchSensorCatch(s)
                         ELSE fetchSensorTry(resp.body, s)

(***************************************************************************)
(* The endpoints.  An environment gives, for each poller, the responses    *)
(* its endpoint may send, and how many requests it will answer at a time.  *)
(***************************************************************************)
StatusBodies ==
    [connected      : {Undefined, Bool(TRUE), Bool(FALSE)},
     ip             : {Undefined, Null, Str("192.168.1.5"), Str("10.0.0.7")},
     cameraDetected : {Undefined, Null, Bool(TRUE), Bool(FALSE)},
     camera         : {Undefined, Null, Bool(TRUE), Bool(FALSE)}]

TimeBodies ==
    [datetime : {Undefined, Null, Str(""), Str("2024-05-01 12:00:00"),
                 Str("2024-05-01 12:01:00")}]

SensorBodies ==
    [temperature : {Undefined, Null, Num(0), Num(25)},
     humidity    : {Undefined, Null, Num(0), Num(55)},
     level       : {Undefined, Null, Num(0), Num(80)},
     pump        : {Undefined, Null, Bool(TRUE), Bool(FALSE)}]

Failures == {Rejected, NotJson, Json(Null)}

Responses(Bodies) == Failures \cup {Json(j) : j \in Bodies}

\* A few responses of each endpoint: a failure, and the examples of the
\* page's description.
FewStatus ==
    {Rejected,
     Json([connected |-> Bool(TRUE), ip |-> Str("192.168.1.5"),
           cameraDetected |-> Bool(TRUE), camera |-> Undefined])}

FewTime == {Rejected, Json([datetime |-> Str("2024-05-01 12:00:00")])}

FewSensor ==
    {Rejected,
     Json([temperature |-> Null, humidity |-> Num(55), level |-> Num(80),
           pump |-> Bool(TRUE)]),
     Json([temperature |-> Num(25), humidity |-> Num(0), level |-> Num(0),
           pump |-> Bool(FALSE)])}

\* An environment: resp[p] is what the endpoint of poller p may answer, and
\* cap[p] is how many requests of p it will answer at a time (0: it is down).
Env(resp, cap) == [resp |-> resp, cap |-> cap]

Few(n) ==
    Env([status |-> FewStatus, time |-> FewTime, sensor |-> FewSensor],
        [p \in Pollers |-> n])

\* Each endpoint answers with a failure or with one object.
Two(n) ==
    Env([status |-> FewStatus, time |-> FewTime,
         sensor |-> {Rejected,
                     Json([temperature |-> Null, humidity |-> Num(55),
                           level |-> Num(80), pump |-> Bool(TRUE)])}],
        [p \in Pollers |-> n])

\* Only the endpoint of poller p is up.
Only(p, R, n) ==
    Env([q \in Pollers |-> IF q = p THEN R ELSE {}],
        [q \in Pollers |-> IF q = p THEN n ELSE 0])

\* The endpoint answered, and the body is an object.
Successful(resp) == ~Throws(resp)

\* The slots that the try block of poller p writes.
Writes(p) ==
    CASE p = "status" -> {"wifi", "camera"}
      [] p = "time"   -> {"datetime"}
      [] p = "sensor" -> {"temp", "hum", "level", "pump"}

\* The slots on which the catch block of poller p writes 'Error'.
ErrorSlots(p) ==
    CASE p = "status" -> {"wifi"}
      [] p = "time"   -> {"datetime"}
      [] p = "sensor" -> {"temp", "hum", "pump"}

ShowsError(p, s) == \E x \in ErrorSlots(p) : s[x] = "Error"

(***************************************************************************)
(* The state after the markup is parsed and before the script runs.       *)
(***************************************************************************)
Init ==
    /\ pc = "L71"
    /\ timers = {}
    /\ clock = 0
    /\ due = {}
    /\ sent = [p \in Pollers |-> 0]
    /\ pending = [p \in Pollers |-> <<>>]
    /\ hung = [p \in Pollers |-> FALSE]
    /\ healthy = [p \in Pollers |-> FALSE]
    /\ slots = InitialSlots
    /\ last = [p \in Pollers |-> [resp |-> NoPoll, late |-> FALSE,
                                   recovery |-> FALSE]]

(***************************************************************************)
(* fetch(url) up to the first await: the request leaves.  The environment  *)
(* decides here whether the request will ever be answered: one that will   *)
(* be is kept in pending[p] (in the order of issue, with a flag that says  *)
(* whether a later request was answered before it), one that never will    *)
(* be is only remembered in hung[p].  An endpoint that already holds       *)
(* E.cap[p] requests answers no more.                                      *)
(***************************************************************************)
Issue(p, E) ==
    /\ sent' = [sent EXCEPT ![p] = @ + 1]
    /\ \/ /\ Len(pending[p]) < E.cap[p]
          /\ pending' = [pending EXCEPT ![p] = Append(@, FALSE)]
          /\ hung' = hung
       \/ /\ healthy[p] => Len(pending[p]) >= E.cap[p]
          /\ hung' = [hung EXCEPT ![p] = TRUE]
          /\ pending' = pending

(***************************************************************************)
(* The script, lines 71, 82, 83, 99 and 100, run to completion at load.    *)
(***************************************************************************)
CallFetchStatus(E) ==
    /\ pc = "L71"
    /\ Issue("status", E)
    /\ pc' = "L82"
    /\ UNCHANGED <<timers, clock, due, healthy, slots, last>>

CallFetchTime(E) ==
    /\ pc = "L82"
    /\ Issue("time", E)
    /\ pc' = "L83"
    /\ UNCHANGED <<timers, clock, due, healthy, slots, last>>

TimePeriodMs == 60000

\* Mutant: the period of the time timer is mistyped.
SetIntervalTime_6s ==
    /\ pc = "L83"
    /\ timers' = timers \cup {[fn |-> "time", ms |-> 6000]}
    /\ pc' = "L99"
    /\ UNCHANGED <<clock, due, sent, pending, hung, healthy, slots, last>>

SetIntervalTime ==
    /\ pc = "L83"
    /\ timers' = timers \cup {[fn |-> "time", ms |-> TimePeriodMs]}
    /\ pc' = "L99"
    /\ UNCHANGED <<clock, due, sent, pending, hung, healthy, slots, last>>

CallFetchSensor(E) ==
    /\ pc = "L99"
    /\ Issue("sensor", E)
    /\ pc' = "L100"
    /\ UNCHANGED <<timers, clock, due, healthy, slots, last>>

SensorPeriodMs == 5000

\* Mutant: fetchStatus is put on a timer as well.
SetIntervalSensor_alsoStatus ==
    /\ pc = "L100"
    /\ timers' = timers \cup {[fn |-> "sensor", ms |-> SensorPeriodMs],
                               [fn |-> "status", ms |-> SensorPeriodMs]}
    /\ pc' = "idle"
    /\ UNCHANGED <<clock, due, sent, pending, hung, healthy, slots, last>>

SetIntervalSensor ==
    /\ pc = "L100"
    /\ timers' = timers \cup {[fn |-> "sensor", ms |-> SensorPeriodMs]}
    /\ pc' = "idle"
    /\ UNCHANGED <<clock, due, sent, pending, hung, healthy, slots, last>>

Script(E) ==
    \/ CallFetchStatus(E)
    \/ CallFetchTime(E)
    \/ SetIntervalTime
    \/ CallFetchSensor(E)
    \/ SetIntervalSensor

(***************************************************************************)
(* The timer queue.  The clock counts the milliseconds since load, modulo  *)
(* the longest period, in steps of the shortest; a timer is due when the   *)
(* clock is a multiple of its period.  A due callback runs before the      *)
(* next step of the clock.  sent[p] counts the requests of p since its     *)
(* timer was last due (since load, for a poller without a timer).          *)
(***************************************************************************)
Tick ==
    /\ pc = "idle"
    /\ due = {}
    /\ clock' = (clock + SensorPeriodMs) % TimePeriodMs
    /\ due' = {t.fn : t \in {u \in timers : clock' % u.ms = 0}}
    /\ sent' = [p \in Pollers |-> IF p \in due' THEN 0 ELSE sent[p]]
    /\ UNCHANGED <<pc, timers, pending, hung, healthy, slots, last>>

\* Time passes, with no account of how much: the timer of p becomes due.
Elapse(p) ==
    /\ pc = "idle"
    /\ p \notin due
    /\ \E t \in timers : t.fn = p
    /\ due' = due \cup {p}
    /\ sent' = [sent EXCEPT ![p] = 0]
    /\ UNCHANGED <<pc, timers, clock, pending, hung, healthy, slots, last>>

\* Mutant: the timer is a one-shot timer (setTimeout).
TimerFires_once(p, E) ==
    /\ pc = "idle"
    /\ p \in due
    /\ due' = due \ {p}
    /\ timers' = {t \in timers : t.fn # p}
    /\ Issue(p, E)
    /\ UNCHANGED <<pc, clock, healthy, slots, last>>

\* The interval callback of poller p: fetchTime or fetchSensor is called.
TimerFires(p, E) ==
    /\ pc = "idle"
    /\ p \in due
    /\ due' = due \ {p}
    /\ Issue(p, E)
    /\ UNCHANGED <<pc, timers, clock, healthy, slots, last>>

(***************************************************************************)
(* A response arrives and the poller's continuation runs: the i-th         *)
(* request in flight of poller p is answered with a response of E.resp[p]. *)
(* The requests issued before it and still in flight have been overtaken.  *)
(* A continuation runs only when the script has run to completion.         *)
(***************************************************************************)
Overtake(q, i) ==
    [k \in 1..(Len(q) - 1) |-> IF k < i THEN TRUE ELSE q[k + 1]]

Settles(p, E) ==
    /\ pc = "idle"
    /\ \E i \in 1..Len(pending[p]) : \E resp \in E.resp[p] :
          /\ healthy[p] => Successful(resp)
          /\ slots' = Handler(p, resp, slots)
          /\ pending' = [pending EXCEPT ![p] = Overtake(@, i)]
          /\ last' = [last EXCEPT ![p] =
                        [resp |-> resp, late |-> pending[p][i],
                         recovery |-> healthy[p] /\ ShowsError(p, slots)]]
    /\ UNCHANGED <<pc, timers, clock, due, sent, hung, healthy>>

\* The endpoint of poller p recovers while p shows 'Error': from now on it
\* answers, and answers with an object.  (The other endpoints stay free to
\* do the same or not; an endpoint that answers with objects before any
\* 'Error' is shown never causes one.)
Recovers(p) ==
    /\ \A q \in Pollers : ~healthy[q]
    /\ ShowsError(p, slots)
    /\ healthy' = [healthy EXCEPT ![p] = TRUE]
    /\ UNCHANGED <<pc, timers, clock, due, sent, pending, hung, slots, last>>

(***************************************************************************)
(* Specifications.                                                         *)
(***************************************************************************)
\* The steps of the page and of its endpoints in the environment E.
Page(E) ==
    \/ Script(E)
    \/ \E p \in Pollers : TimerFires(p, E)
    \/ \E p \in Pollers : Settles(p, E)


\* The whole page, the three endpoints up, time passing unmeasured.
Next ==
    \/ Page(Few(MaxInFlight))
    \/ \E p \in Pollers : Elapse(p)

Spec == Init /\ [][Next]_vars

\* One endpoint up, with every response it can give.
StatusNext ==
    \/ Page(Only("status", Responses(StatusBodies), SmallInFlight))
    \/ \E p \in Pollers : Elapse(p)

StatusSpec == Init /\ [][StatusNext]_vars

TimeNext ==
    \/ Page(Only("time", Responses(TimeBodies), SmallInFlight))
    \/ \E p \in Pollers : Elapse(p)

TimeSpec == Init /\ [][TimeNext]_vars

SensorNext ==
    \/ Page(Only("sensor", Responses(SensorBodies), SmallInFlight))
    \/ \E p \in Pollers : Elapse(p)

SensorSpec == Init /\ [][SensorNext]_vars

Fair(E) ==
    /\ WF_vars(Script(E))
    /\ \A p \in {"time", "sensor"} : WF_vars(TimerFires(p, E))
    /\ \A p \in Pollers : WF_vars(Settles(p, E))

\* The whole page with the clock: every timer callback runs, and every
\* request that is to be answered is answered.
ClockNext ==
    \/ Page(Two(SmallInFlight))
    \/ Tick

ClockSpec ==
    /\ Init
    /\ [][ClockNext]_vars
    /\ WF_vars(Tick)
    /\ Fair(Two(SmallInFlight))

\* The whole page with an endpoint that recovers.
FairNext ==
    \/ Page(Two(SmallInFlight))
    \/ \E p \in Pollers : Elapse(p)
    \/ \E p \in Pollers : Recovers(p)

FairSpec ==
    /\ Init
    /\ [][FairNext]_vars
    /\ \A p \in {"time", "sensor"} : WF_vars(Elapse(p))
    /\ Fair(Two(SmallInFlight))

(***************************************************************************)
(* Properties.  last[p].resp is the response of the poll of p that         *)
(* completed last; the slots of p change only when a poll of p completes.  *)
(***************************************************************************)
Polled(p) == last[p].resp # NoPoll

\* The poll of p that completed last failed: the fetch rejected or the body
\* was not JSON.
Failed(p) == last[p].resp \in {Rejected, NotJson}

\* The poll of p that completed last parsed its body to an object.
Parsed(p) == last[p].resp.kind = "json" /\ last[p].resp.body # Null

Body(p) == last[p].resp.body

Missing(v) == v \in {Undefined, Null}

\* The decimal text of the numbers the endpoints send.
NumberText(v) ==
    CASE v = Num(0)  -> "0"
      [] v = Num(25) -> "25"
      [] v = Num(55) -> "55"
      [] v = Num(80) -> "80"

\* The text of an ip after 'Connected: '.
IpText(v) ==
    CASE v = Undefined -> "undefined"
      [] v = Null      -> "null"
      [] OTHER         -> v.s

\* C1: after a failed poll of a poller, every slot that the poller writes on
\* success shows 'Error'.
C1_FailedPollShowsError ==
    \A p \in Pollers :
        Failed(p) => \A x \in Writes(p) : slots[x] = "Error"

\* C2: after a status poll, the wifi slot is 'Connected: ' and the ip when
\* connected is true, 'Not connected' when it is false, 'Error' when the
\* request rejected or the body was not JSON.
C2_WifiFromOutcome ==
    /\ Failed("status") => slots["wifi"] = "Error"
    /\ Parsed("status") /\ Body("status").connected = Bool(TRUE)
         => slots["wifi"] = "Connected: " \o IpText(Body("status").ip)
    /\ Parsed("status") /\ Body("status").connected = Bool(FALSE)
         => slots["wifi"] = "Not connected"

C2_Witness ==
    /\ Parsed("status")
    /\ Body("status").connected = Bool(TRUE)
    /\ Body("status").ip = Str("10.0.0.7")
    /\ slots["wifi"] = "Connected: 10.0.0.7"

\* The four sensor slots show the fields of j.
SensorShows(j) ==
    /\ j.temperature = Null => slots["temp"] = "N/A"
    /\ j.temperature.t = "number"
         => slots["temp"] = NumberText(j.temperature) \o " degC"
    /\ j.humidity = Null => slots["hum"] = "N/A"
    /\ j.humidity.t = "number" => slots["hum"] = NumberText(j.humidity) \o " %"
    /\ j.level = Null => slots["level"] = "N/A"
    /\ j.level.t = "number" => slots["level"] = NumberText(j.level) \o " %"
    /\ j.pump = Null => slots["pump"] = "N/A"
    /\ j.pump = Bool(TRUE) => slots["pump"] = "On"
    /\ j.pump = Bool(FALSE) => slots["pump"] = "Off"

\* C3: after a successful sensor poll, each sensor slot shows 'N/A' when its
\* field is null and otherwise its value: the number (0 included) and the
\* unit, or 'On' and 'Off' for the pump.
C3_SensorRendering == Parsed("sensor") => SensorShows(Body("sensor"))

C3_Witness ==
    /\ Parsed("sensor")
    /\ Body("sensor") = [temperature |-> Null, humidity |-> Num(0),
                         level |-> Num(80), pump |-> Bool(FALSE)]
    /\ slots["temp"] = "N/A"
    /\ slots["hum"] = "0 %"
    /\ slots["level"] = "80 %"
    /\ slots["pump"] = "Off"

\* C4: after a parsed response in which a field is absent or null, the slot
\* of the field shows 'N/A' or 'Error'.
C4_MissingFieldFallback ==
    LET Fallback(x) == slots[x] \in {"N/A", "Error"} IN
    /\ Parsed("status") =>
         /\ Missing(Body("status").ip) => Fallback("wifi")
         /\ Missing(Body("status").cameraDetected)
              /\ Missing(Body("status").camera) => Fallback("camera")
    /\ Parsed("time") =>
         (Missing(Body("time").datetime) => Fallback("datetime"))
    /\ Parsed("sensor") =>
         /\ Missing(Body("sensor").temperature) => Fallback("temp")
         /\ Missing(Body("sensor").humidity) => Fallback("hum")
         /\ Missing(Body("sensor").level) => Fallback("level")
         /\ Missing(Body("sensor").pump) => Fallback("pump")

\* C5: after a time poll, the datetime slot shows the datetime string when it
\* is present and not empty, 'N/A' when it is absent, null or empty, and
\* 'Error' when the poll failed.
C5_DatetimeRendering ==
    /\ Failed("time") => slots["datetime"] = "Error"
    /\ Parsed("time") =>
         LET d == Body("time").datetime IN
         /\ d \in {Undefined, Null, Str("")} => slots["datetime"] = "N/A"
         /\ d.t = "string" /\ d.s # "" => slots["datetime"] = d.s

C5_Witness ==
    /\ Parsed("time")
    /\ Body("time").datetime = Str("")
    /\ slots["datetime"] = "N/A"

\* A poll of p completes in this step.
Completes(p) == Len(pending'[p]) < Len(pending[p])

\* A request of p is issued in this step.
Issues(p) == sent'[p] > sent[p]

Owner(x) == CHOOSE p \in Pollers : x \in Writes(p)

\* C6: the completion of a poll of a poller, successful or not, leaves the
\* slots of the other two pollers unchanged, and a slot changes only when a
\* poll of its own poller completes.
C6_OnePollerPerSlot ==
    [][/\ \A p \in Pollers : Completes(p) =>
              \A x \in SlotIds \ Writes(p) : slots'[x] = slots[x]
       /\ \A x \in SlotIds : slots'[x] # slots[x] => Completes(Owner(x))]_vars

C6_Witness ==
    /\ Failed("sensor")
    /\ slots["temp"] = "Error"
    /\ Parsed("time")
    /\ slots["datetime"] = "2024-05-01 12:00:00"
    /\ Parsed("status")
    /\ slots["wifi"] = "Connected: 192.168.1.5"
    /\ slots["camera"] = "Successful"

\* C9: the sensor slots always show the outcome of the sensor poll that
\* completed last, whatever the order of issue: the rendered fields after a
\* successful poll, 'Error' after a failed one.
C9_ShowsLastCompleted ==
    /\ Parsed("sensor") => SensorShows(Body("sensor"))
    /\ Polled("sensor") /\ ~Parsed("sensor") =>
           \A x \in Writes("sensor") : slots[x] = "Error"

\* C10: a request that never resolves is never cancelled, and while no other
\* poll of its poller completes the slots of the poller keep their text; it
\* stops neither the timer callbacks nor the completion of other requests;
\* a status request that never resolves leaves wifi and camera at their
\* initial text.
C10_HungRequest ==
    /\ [](hung["status"] => /\ slots["wifi"] = InitialSlots["wifi"]
                            /\ slots["camera"] = InitialSlots["camera"])
    /\ [](\A p \in Pollers : hung[p] =>
            /\ p \in due /\ pc = "idle"
                 => ENABLED TimerFires(p, Few(MaxInFlight))
            /\ pending[p] # <<>> /\ pc = "idle"
                 => ENABLED Settles(p, Few(MaxInFlight)))
    /\ [][\A p \in Pollers : hung[p] =>
            /\ hung'[p]
            /\ ~Completes(p) => \A x \in Writes(p) : slots'[x] = slots[x]]_vars

C10_Witness ==
    /\ hung["status"]
    /\ slots["wifi"] = "Loading..."
    /\ hung["sensor"]
    /\ last["sensor"].late
    /\ slots["temp"] = "25 degC"
    /\ "sensor" \in due

\* C7: the status request is issued once, at load; the time request at load
\* and then once in every period of 60 s; the sensor request at load and
\* then once in every period of 5 s; both keep being issued for ever.
C7_Schedule ==
    /\ [](/\ sent["status"] = (IF pc = "L71" THEN 0 ELSE 1)
          /\ pc \in {"L83", "L99", "L100"} => sent["time"] = 1
          /\ pc = "L100" => sent["sensor"] = 1
          /\ pc = "idle" =>
               \A p \in {"time", "sensor"} :
                   sent[p] = (IF p \in due THEN 0 ELSE 1)
          /\ due \subseteq {"time", "sensor"}
          /\ "time" \in due => clock = 0)
    /\ [][clock' # clock =>
            /\ clock' = (clock + 5000) % 60000
            /\ "sensor" \in due'
            /\ "time" \in due' <=> clock' = 0]_vars
    /\ \A p \in {"time", "sensor"} :
          /\ []<>(pc = "idle" /\ sent[p] = 0)
          /\ []<>(pc = "idle" /\ sent[p] = 1)

C7_Witness ==
    /\ clock = 0
    /\ due = {"sensor"}
    /\ sent = [status |-> 1, time |-> 1, sensor |-> 0]
    /\ Failed("time")
    /\ Failed("status")

NoError(p) == \A x \in ErrorSlots(p) : slots[x] # "Error"

\* A poller recovers: once its endpoint answers successfully from then on,
\* slots that show 'Error' come to show a rendered value.
RecoversFromError(p) ==
    (healthy[p] /\ ShowsError(p, slots)) ~> NoError(p)

\* No step in which a poll completes issues a request.
NoRetry ==
    \A p \in Pollers : Completes(p) => \A q \in Pollers : ~Issues(q)

\* C8 as stated: each of the three pollers recovers at its next timer tick,
\* and no request is reissued before it.
C8_EveryPollerRecovers ==
    /\ \A p \in Pollers : RecoversFromError(p)
    /\ [][NoRetry]_vars

\* C8 as amended: the time and the sensor poller recover at their next timer
\* tick; the status poller, which has no timer, issues no second request, so
\* an 'Error' in the wifi slot stays; no request is reissued before a tick.
C8_TimedPollersRecover ==
    /\ \A p \in {"time", "sensor"} : RecoversFromError(p)
    /\ [][slots["wifi"] = "Error" => slots'["wifi"] = "Error"]_vars
    /\ [][NoRetry]_vars

C8_Witness ==
    /\ healthy["sensor"]
    /\ last["sensor"].recovery
    /\ NoError("sensor")
====
